---- MODULE Spec2Model ----
(***************************************************************************)
(* Model of the porkbun DNS client (dns.go): client construction, the four *)
(* record operations, and the request/response pipeline around them.       *)
(*                                                                         *)
(* Conventions.                                                            *)
(*  - A Go pointer or error that may be nil is a sequence of length 0      *)
(*    (nil) or 1 (the value pointed to).                                   *)
(*  - A Go struct is a record with the Go field names.                     *)
(*  - A JSON object is a function from its keys to its values; a key that  *)
(*    is absent from the object is absent from the function's domain.      *)
(*  - The API status string is a sequence of one-character strings, so     *)
(*    that case folding is computed character by character.                *)
(*  - A URL is the sequence of its path segments.                          *)
(***************************************************************************)
EXTENDS Integers, Sequences, FiniteSets, TLC

VARIABLES
    cfg,      \* the Config last handed to NewClient, as NewClient left it (nil before)
    client,   \* the *Client NewClient returned (nil until construction succeeds)
    ncErr,    \* the error NewClient returned
    pc,       \* per caller: "idle", "posted", "returned", "panicked"
    call,     \* per caller: the operation invoked and its arguments
    posts,    \* per caller: the POSTs issued on the transport by the current invocation
    reply,    \* per caller: what the transport's Post returned
    result,   \* per caller: what the operation returned to its caller
    closes    \* per caller: number of Close calls made on the delivered response body

vars == <<cfg, client, ncErr, pc, call, posts, reply, result, closes>>

----------------------------------------------------------------------------
(* Bounds *)

NumCallers == 2      \* concurrent callers in SpecConc
MaxRecords == 2      \* longest records array in a response body

----------------------------------------------------------------------------
(* Strings and formatting *)

STATUS_SUCCESS == <<"S", "U", "C", "C", "E", "S", "S">>

PORKBUN_API_BASE == <<"{PORKBUN_API_BASE}">>
PORKBUN_DNS_BASE == PORKBUN_API_BASE \o <<"dns">>
PORKBUN_DNS_CREATE == PORKBUN_DNS_BASE \o <<"create", "%s">>
PORKBUN_DNS_EDIT == PORKBUN_DNS_BASE \o <<"edit", "%s", "%s">>
PORKBUN_DNS_DELETE_wrong == PORKBUN_DNS_BASE \o <<"edit", "%s", "%s">>
PORKBUN_DNS_DELETE == PORKBUN_DNS_BASE \o <<"delete", "%s", "%s">>
PORKBUN_DNS_RETRIEVE == PORKBUN_DNS_BASE \o <<"retrieve", "%s">>

\* fmt.Sprintf on a template whose verbs are all %s: the i-th verb is
\* replaced by the i-th argument.
RECURSIVE Sprintf(_, _)
Sprintf(format, args) ==
    IF format = <<>> THEN <<>>
    ELSE IF Head(format) = "%s"
         THEN IF args = <<>>
              THEN <<"%!s(MISSING)">> \o Sprintf(Tail(format), args)
              ELSE <<Head(args)>> \o Sprintf(Tail(format), Tail(args))
         ELSE <<Head(format)>> \o Sprintf(Tail(format), args)

\* unicode.SimpleFold restricted to the characters the model uses: the next
\* character of the case orbit.  "U+017F" stands for the one character LATIN
\* SMALL LETTER LONG S, whose orbit is S -> s -> U+017F -> S.
SimpleFold(r) ==
    CASE r = "S" -> "s"
      [] r = "s" -> "U+017F"
      [] r = "U+017F" -> "S"
      [] r = "U" -> "u"
      [] r = "u" -> "U"
      [] r = "C" -> "c"
      [] r = "c" -> "C"
      [] r = "E" -> "e"
      [] r = "e" -> "E"
      [] r = "R" -> "r"
      [] r = "r" -> "R"
      [] r = "O" -> "o"
      [] r = "o" -> "O"
      [] OTHER -> r

\* strings.EqualFold: equal length in characters, and each pair of
\* characters equal or in the same case orbit.
EqualFold(s, t) ==
    /\ Len(s) = Len(t)
    /\ \A i \in 1..Len(s) :
          \/ s[i] = t[i]
          \/ SimpleFold(s[i]) = t[i]
          \/ SimpleFold(SimpleFold(s[i])) = t[i]

----------------------------------------------------------------------------
(* Data model *)

NilErr == <<>>

\* fmt.Errorf: the format and the values formatted into it.
Errorf(format, code, body, status) ==
    <<[fmt |-> format, code |-> code, body |-> body, status |-> status]>>

ZeroDNSRecord ==
    [ID |-> "", Name |-> "", Type |-> "", Content |-> "", TTL |-> 0,
     Prio |-> <<>>, Notes |-> ""]

ZeroDNSResponse == [Status |-> <<>>, Id |-> "", Records |-> <<>>]

\* Struct fields with their json tags; all carry omitempty.
AuthFields ==
    {[go |-> "APIKey", key |-> "apikey", kind |-> "string"],
     [go |-> "SecretAPIKey", key |-> "secretapikey", kind |-> "string"]}

DNSRecordFields ==
    {[go |-> "ID", key |-> "id", kind |-> "string"],
     [go |-> "Name", key |-> "name", kind |-> "string"],
     [go |-> "Type", key |-> "type", kind |-> "string"],
     [go |-> "Content", key |-> "content", kind |-> "string"],
     [go |-> "TTL", key |-> "ttl", kind |-> "int"],
     [go |-> "Prio", key |-> "prio", kind |-> "ptr"],
     [go |-> "Notes", key |-> "notes", kind |-> "string"]}

\* encoding/json's omitempty test.
IsEmptyValue(v, kind) ==
    CASE kind = "string" -> v = ""
      [] kind = "int" -> v = 0
      [] kind = "ptr" -> v = <<>>

EncodeValue(v, kind) == IF kind = "ptr" THEN v[1] ELSE v

\* json.Marshal of a struct value v with the given fields.
MarshalFields(fields, v) ==
    LET present == {f \in fields : ~IsEmptyValue(v[f.go], f.kind)}
    IN [k \in {f.key : f \in present} |->
          LET f == CHOOSE g \in present : g.key = k
          IN EncodeValue(v[f.go], f.kind)]

\* json.Marshal of dnsRecordWithAuth: the fields of both embedded structs are
\* promoted to the top level; a key both embedded structs declare at the same
\* depth is dropped by encoding/json.
Marshal_dnsRecordWithAuth(lee) ==
    LET authKept == {f \in AuthFields : \A g \in DNSRecordFields : g.key # f.key}
        recKept == {f \in DNSRecordFields : \A g \in AuthFields : g.key # f.key}
    IN MarshalFields(authKept, lee.Auth) @@ MarshalFields(recKept, lee.DNSRecord)

JsonGet(obj, key, zero) == IF key \in DOMAIN obj THEN obj[key] ELSE zero

\* json decoding of one element of the records array into a DNSRecord.
Unmarshal_DNSRecord(obj) ==
    [ID |-> JsonGet(obj, "id", ""),
     Name |-> JsonGet(obj, "name", ""),
     Type |-> JsonGet(obj, "type", ""),
     Content |-> JsonGet(obj, "content", ""),
     TTL |-> JsonGet(obj, "ttl", 0),
     Prio |-> IF "prio" \in DOMAIN obj THEN <<obj["prio"]>> ELSE <<>>,
     Notes |-> JsonGet(obj, "notes", "")]

\* json decoding of a response object into a DNSResponse.
Unmarshal_DNSResponse(obj) ==
    LET recs == JsonGet(obj, "records", <<>>)
    IN [Status |-> JsonGet(obj, "status", <<>>),
        Id |-> JsonGet(obj, "id", ""),
        Records |-> [i \in 1..Len(recs) |-> Unmarshal_DNSRecord(recs[i])]]

----------------------------------------------------------------------------
(* The program's functions *)

NewClient_noSecretCheck(c) ==
    IF c.Auth.APIKey = ""
    THEN [client |-> <<>>, cfg |-> c,
          err |-> Errorf("APIKey should not be empty", 0, "", <<>>)]
    ELSE LET d == IF c.Client = <<>>
                  THEN [c EXCEPT !.Client = <<"http.DefaultClient">>]
                  ELSE c
         IN [client |-> <<[config |-> d]>>, cfg |-> d, err |-> NilErr]

\* NewClient(cfg): the *Client and error returned, and the caller's Config
\* as the call leaves it (a nil transport is overwritten in place).
NewClient(c) ==
    IF c.Auth.APIKey = ""
    THEN [client |-> <<>>, cfg |-> c,
          err |-> Errorf("APIKey should not be empty", 0, "", <<>>)]
    ELSE IF c.Auth.SecretAPIKey = ""
    THEN [client |-> <<>>, cfg |-> c,
          err |-> Errorf("SecretAPIKey should not be empty", 0, "", <<>>)]
    ELSE LET d == IF c.Client = <<>>
                  THEN [c EXCEPT !.Client = <<"http.DefaultClient">>]
                  ELSE c
         IN [client |-> <<[config |-> d]>>, cfg |-> d, err |-> NilErr]

\* json.Marshal cannot fail on a struct of strings, an int and a *uint16,
\* so err is nil in both builders.
getAuthJson(c) ==
    [json |-> MarshalFields(AuthFields, c.config.Auth), err |-> NilErr]

getDNSRecordWithAuthJson_nested(c, dnsRecord) ==
    [json |-> ("Auth" :> MarshalFields(AuthFields, c.config.Auth))
                 @@ MarshalFields(DNSRecordFields, dnsRecord),
     err |-> NilErr]

getDNSRecordWithAuthJson(c, dnsRecord) ==
    LET lee == [Auth |-> c.config.Auth, DNSRecord |-> dnsRecord]
    IN [json |-> Marshal_dnsRecordWithAuth(lee), err |-> NilErr]

requireSuccess_exact(dnsRes) ==
    IF dnsRes.Status # STATUS_SUCCESS
    THEN Errorf("Expected success code, got %s", 0, "", dnsRes.Status)
    ELSE NilErr

requireSuccess(dnsRes) ==
    IF ~EqualFold(dnsRes.Status, STATUS_SUCCESS)
    THEN Errorf("Expected success code, got %s", 0, "", dnsRes.Status)
    ELSE NilErr

generateUnexpectedResponseCodeError_noClose(resp) ==
    [err |-> Errorf("Unexpected response code: %d (%s)",
                    resp.StatusCode, resp.Body.raw, <<>>),
     closes |-> 0]

\* Reads the whole body, closes it, and formats code and body text.
generateUnexpectedResponseCodeError(resp) ==
    [err |-> Errorf("Unexpected response code: %d (%s)",
                    resp.StatusCode, resp.Body.raw, <<>>),
     closes |-> 1]

\* requireOK(res, err): the pair returned, and how many times it closed
\* the body of res on the way.
requireOK(res, err) ==
    IF err # NilErr
    THEN [res |-> <<>>, err |-> err, closes |-> IF res # <<>> THEN 1 ELSE 0]
    ELSE IF res[1].StatusCode # 200
    THEN LET g == generateUnexpectedResponseCodeError(res[1])
         IN [res |-> <<>>, err |-> g.err, closes |-> g.closes]
    ELSE [res |-> res, err |-> NilErr, closes |-> 0]

extractDNSResponse_dropsResponse(res, err) ==
    IF err # NilErr
    THEN [resp |-> ZeroDNSResponse, err |-> err]
    ELSE IF res[1].Body.json = <<>>
    THEN [resp |-> ZeroDNSResponse,
          err |-> Errorf("Error decoding DNSResponse json", 0, "", <<>>)]
    ELSE [resp |-> ZeroDNSResponse, err |-> err]

\* extractDNSResponse(res, err).  The err returned on the requireSuccess
\* branch is the parameter err (the err of the decode step is scoped to its own
\* if statement), which is nil whenever that branch is reached.
extractDNSResponse(res, err) ==
    IF err # NilErr
    THEN [resp |-> ZeroDNSResponse, err |-> err]
    ELSE IF res[1].Body.json = <<>>
    THEN [resp |-> ZeroDNSResponse,
          err |-> Errorf("Error decoding DNSResponse json", 0, "", <<>>)]
    ELSE LET dnsResp == Unmarshal_DNSResponse(res[1].Body.json[1])
         IN IF requireSuccess(dnsResp) # NilErr
            THEN [resp |-> ZeroDNSResponse, err |-> err]
            ELSE [resp |-> dnsResp, err |-> NilErr]

----------------------------------------------------------------------------
(* Inputs *)

Key(k, opt) == IF opt = <<>> THEN <<>> ELSE k :> opt[1]

Chars(n, c) == [i \in 1..n |-> c]

Configs ==
    {[Auth |-> [APIKey |-> a, SecretAPIKey |-> k], Client |-> t] :
        a \in {"", "pk1_abc"}, k \in {"", "sk1_xyz"},
        t \in {<<>>, <<"customClient">>}}

Domains == {"example.com", "example.org"}

Ids == {"17"}

RecordInputs ==
    {ZeroDNSRecord,
     [ID |-> "17", Name |-> "www", Type |-> "MX", Content |-> "mail.example.com",
      TTL |-> 600, Prio |-> <<0>>, Notes |-> "primary"],
     [ID |-> "", Name |-> "www", Type |-> "MX", Content |-> "mail.example.com",
      TTL |-> 300, Prio |-> <<10>>, Notes |-> ""],
     [ID |-> "", Name |-> "", Type |-> "A", Content |-> "1.2.3.4",
      TTL |-> 0, Prio |-> <<>>, Notes |-> ""]}

\* Status strings a response may carry.
Statuses ==
    {STATUS_SUCCESS,
     <<"s", "u", "c", "c", "e", "s", "s">>,
     <<"S", "u", "c", "c", "e", "s", "s">>,
     <<"U+017F", "u", "c", "c", "e", "U+017F", "s">>,
     <<"S", "U", "C", "C", "E", "S">>,
     <<"S", "U", "C", "C", "E", "S", "S", " ">>,
     <<"E", "R", "R", "O", "R">>,
     <<>>}

\* Elements of a response's records array.
RecordObjects ==
    {[id |-> "101", name |-> "www.example.com", type |-> "MX",
      content |-> "mail.example.com", ttl |-> 600, prio |-> 0, notes |-> "n"],
     [id |-> "102", type |-> "A", content |-> "1.2.3.4"]}

RecordArrays == UNION {[1..n -> RecordObjects] : n \in 0..MaxRecords}

\* Well-formed JSON response objects; each of the three keys may be absent.
ResponseObjects ==
    {Key("status", st) @@ Key("id", id) @@ Key("records", rs) :
        st \in {<<>>} \cup {<<x>> : x \in Statuses},
        id \in {<<>>, <<"9001">>},
        rs \in {<<>>} \cup {<<a>> : a \in RecordArrays}}

\* A response body: its text, and the JSON object the text parses to (none
\* when the text is not a JSON object).
TextBody(text) == [raw |-> text, json |-> <<>>]
JsonBody(obj) == [raw |-> "{...}", json |-> <<obj>>]

Response(code, body) == <<[StatusCode |-> code, Body |-> body]>>

TransportError == Errorf("Post: dial tcp: i/o timeout", 0, "", <<>>)

\* What the transport's Post may return.
FailedReplies ==
    {[res |-> <<>>, err |-> TransportError],
     [res |-> Response(302, TextBody("")), err |-> TransportError]}

NonOKReplies ==
    {[res |-> Response(code, TextBody(text)), err |-> NilErr] :
        code \in {500, 404}, text \in {"boom", ""}}

UndecodableReplies ==
    {[res |-> Response(200, TextBody("<html>")), err |-> NilErr]}

DecodableReplies ==
    {[res |-> Response(200, JsonBody(o)), err |-> NilErr] : o \in ResponseObjects}

Replies == FailedReplies \cup NonOKReplies \cup UndecodableReplies \cup DecodableReplies

\* The inputs of the concurrent specification: one of each kind.
ConcConfigs ==
    {[Auth |-> [APIKey |-> "pk1_abc", SecretAPIKey |-> k], Client |-> <<>>] :
        k \in {"", "sk1_xyz"}}

ConcDomains == {"example.com"}

ConcIds == {"17"}

ConcRecordInputs ==
    {[ID |-> "", Name |-> "www", Type |-> "A", Content |-> "1.2.3.4",
      TTL |-> 600, Prio |-> <<>>, Notes |-> ""]}

ConcReplies ==
    {[res |-> <<>>, err |-> TransportError],
     [res |-> Response(500, TextBody("boom")), err |-> NilErr],
     [res |-> Response(200, JsonBody("status" :> <<"E", "R", "R", "O", "R">>)),
      err |-> NilErr],
     [res |-> Response(200, JsonBody(("status" :> STATUS_SUCCESS) @@ ("id" :> "9001"))),
      err |-> NilErr]}

----------------------------------------------------------------------------
(* State and operations *)

Callers == DOMAIN pc

ZeroCall == [op |-> "", domain |-> "", id |-> "", record |-> ZeroDNSRecord]
ZeroReply == [res |-> <<>>, err |-> NilErr]
ZeroResult == [resp |-> ZeroDNSResponse, err |-> NilErr]

InitFor(C) ==
    /\ cfg = <<>>
    /\ client = <<>>
    /\ ncErr = NilErr
    /\ pc = [p \in C |-> "idle"]
    /\ call = [p \in C |-> ZeroCall]
    /\ posts = [p \in C |-> <<>>]
    /\ reply = [p \in C |-> ZeroReply]
    /\ result = [p \in C |-> ZeroResult]
    /\ closes = [p \in C |-> 0]

\* The program calls NewClient(c) (again, if an earlier call failed).
Construct(c) ==
    /\ client = <<>>
    /\ LET r == NewClient(c)
       IN /\ cfg' = <<r.cfg>>
          /\ client' = r.client
          /\ ncErr' = r.err
    /\ UNCHANGED <<pc, call, posts, reply, result, closes>>

\* Caller p enters an operation on the client: the per-invocation state
\* of p starts afresh.
Enter(p, c) ==
    /\ client # <<>>
    /\ pc[p] \in {"idle", "returned"}
    /\ call' = [call EXCEPT ![p] = c]
    /\ reply' = [reply EXCEPT ![p] = ZeroReply]
    /\ closes' = [closes EXCEPT ![p] = 0]
    /\ UNCHANGED <<cfg, ncErr>>

\* The operation returns before any request is made.
ReturnEarly(p, err) ==
    /\ pc' = [pc EXCEPT ![p] = "returned"]
    /\ posts' = [posts EXCEPT ![p] = <<>>]
    /\ result' = [result EXCEPT ![p] = [resp |-> ZeroDNSResponse, err |-> err]]
    /\ UNCHANGED client

Post_storesRequest(p, url, contentType, body) ==
    /\ pc' = [pc EXCEPT ![p] = "posted"]
    /\ posts' = [posts EXCEPT ![p] =
                   <<[url |-> url, contentType |-> contentType, body |-> body,
                      via |-> client[1].config.Client[1]]>>]
    /\ result' = [result EXCEPT ![p] = ZeroResult]
    /\ client' = <<[config |-> [client[1].config EXCEPT
                                   !.Auth.APIKey = Head(url)]]>>

\* c.config.Client.Post(url, contentType, body): the request goes out on
\* the client's transport and the caller waits for the reply.
Post(p, url, contentType, body) ==
    /\ pc' = [pc EXCEPT ![p] = "posted"]
    /\ posts' = [posts EXCEPT ![p] =
                   <<[url |-> url, contentType |-> contentType, body |-> body,
                      via |-> client[1].config.Client[1]]>>]
    /\ result' = [result EXCEPT ![p] = ZeroResult]
    /\ UNCHANGED client

CreateRecord(p, domain, dnsrecord) ==
    /\ Enter(p, [op |-> "CreateRecord", domain |-> domain, id |-> "",
                 record |-> dnsrecord])
    /\ LET authjson == getDNSRecordWithAuthJson(client[1], dnsrecord)
       IN IF authjson.err # NilErr
          THEN ReturnEarly(p, authjson.err)
          ELSE Post(p, Sprintf(PORKBUN_DNS_CREATE, <<domain>>),
                    "application/json", authjson.json)

EditRecord(p, domain, id, dnsrecord) ==
    /\ Enter(p, [op |-> "EditRecord", domain |-> domain, id |-> id,
                 record |-> dnsrecord])
    /\ LET authjson == getDNSRecordWithAuthJson(client[1], dnsrecord)
       IN IF authjson.err # NilErr
          THEN ReturnEarly(p, authjson.err)
          ELSE Post(p, Sprintf(PORKBUN_DNS_EDIT, <<domain, id>>),
                    "application/json", authjson.json)

DeleteRecord(p, domain, id) ==
    /\ Enter(p, [op |-> "DeleteRecord", domain |-> domain, id |-> id,
                 record |-> ZeroDNSRecord])
    /\ LET authjson == getAuthJson(client[1])
       IN IF authjson.err # NilErr
          THEN ReturnEarly(p, authjson.err)
          ELSE Post(p, Sprintf(PORKBUN_DNS_DELETE, <<domain, id>>),
                    "application/json", authjson.json)

RetrieveRecords(p, domain) ==
    /\ Enter(p, [op |-> "RetrieveRecords", domain |-> domain, id |-> "",
                 record |-> ZeroDNSRecord])
    /\ LET authjson == getAuthJson(client[1])
       IN IF authjson.err # NilErr
          THEN ReturnEarly(p, authjson.err)
          ELSE Post(p, Sprintf(PORKBUN_DNS_RETRIEVE, <<domain>>),
                    "application/json", authjson.json)

\* Post returns rep to caller p and the operation runs to its end:
\*     res, err := requireOK(rep)
\*     defer res.Body.Close()
\*     return extractDNSResponse(res, err)
\* The defer statement evaluates res.Body when it executes; with res nil
\* that is a nil pointer dereference, so the operation panics there and
\* returns nothing.  Otherwise the deferred Close runs once, on return.
Complete(p, rep) ==
    /\ pc[p] = "posted"
    /\ reply' = [reply EXCEPT ![p] = rep]
    /\ LET ok == requireOK(rep.res, rep.err)
       IN IF ok.res = <<>>
          THEN /\ pc' = [pc EXCEPT ![p] = "panicked"]
               /\ closes' = [closes EXCEPT ![p] = ok.closes]
               /\ UNCHANGED result
          ELSE /\ pc' = [pc EXCEPT ![p] = "returned"]
               /\ closes' = [closes EXCEPT ![p] = ok.closes + 1]
               /\ result' = [result EXCEPT ![p] = extractDNSResponse(ok.res, ok.err)]
    /\ UNCHANGED <<cfg, client, ncErr, call, posts>>

----------------------------------------------------------------------------
(* Specifications *)

\* One caller, the full input sets.
Init == InitFor({1})

Next ==
    \/ \E c \in Configs : Construct(c)
    \/ \E p \in Callers, d \in Domains, r \in RecordInputs : CreateRecord(p, d, r)
    \/ \E p \in Callers, d \in Domains, i \in Ids, r \in RecordInputs :
          EditRecord(p, d, i, r)
    \/ \E p \in Callers, d \in Domains, i \in Ids : DeleteRecord(p, d, i)
    \/ \E p \in Callers, d \in Domains : RetrieveRecords(p, d)
    \/ \E p \in Callers, rep \in Replies : Complete(p, rep)

Spec == Init /\ [][Next]_vars

\* NumCallers callers sharing the one client, their calls interleaved.
InitConc == InitFor(1..NumCallers)

NextConc ==
    \/ \E c \in ConcConfigs : Construct(c)
    \/ \E p \in Callers, d \in ConcDomains, r \in ConcRecordInputs :
          CreateRecord(p, d, r)
    \/ \E p \in Callers, d \in ConcDomains, i \in ConcIds, r \in ConcRecordInputs :
          EditRecord(p, d, i, r)
    \/ \E p \in Callers, d \in ConcDomains, i \in ConcIds : DeleteRecord(p, d, i)
    \/ \E p \in Callers, d \in ConcDomains : RetrieveRecords(p, d)
    \/ \E p \in Callers, rep \in ConcReplies : Complete(p, rep)

SpecConc == InitConc /\ [][NextConc]_vars

----------------------------------------------------------------------------
(* Properties *)

Finished(p) == pc[p] \in {"returned", "panicked"}

\* The transport answered caller p with a response and no error.
Answered(p) == reply[p].err = NilErr /\ reply[p].res # <<>>

\* The transport answered caller p with HTTP 200 and a well-formed JSON body.
Decodable(p) ==
    /\ Answered(p)
    /\ reply[p].res[1].StatusCode = 200
    /\ reply[p].res[1].Body.json # <<>>

BodyObject(p) == reply[p].res[1].Body.json[1]

BodyStatus(p) ==
    IF "status" \in DOMAIN BodyObject(p) THEN BodyObject(p)["status"] ELSE <<>>

BodyRecords(p) ==
    IF "records" \in DOMAIN BodyObject(p) THEN BodyObject(p)["records"] ELSE <<>>

ToUpper(ch) ==
    CASE ch \in {"s", "U+017F"} -> "S"
      [] ch = "u" -> "U"
      [] ch = "c" -> "C"
      [] ch = "e" -> "E"
      [] ch = "r" -> "R"
      [] ch = "o" -> "O"
      [] OTHER -> ch

\* The status is the word SUCCESS in some letter case.
SomeCasingOfSuccess(st) ==
    [i \in 1..Len(st) |-> ToUpper(st[i])] = <<"S", "U", "C", "C", "E", "S", "S">>

\* C1: when the transport returns a response whose HTTP status code is not
\* 200, the operation returns (it does not abort) with a non-nil error that
\* carries the status code and the body text.
C1_NonOKReturnsError ==
    \A p \in Callers :
        (Finished(p) /\ Answered(p) /\ reply[p].res[1].StatusCode # 200)
        => /\ pc[p] = "returned"
           /\ result[p].err # NilErr
           /\ result[p].err[1].code = reply[p].res[1].StatusCode
           /\ result[p].err[1].body = reply[p].res[1].Body.raw

\* C2: when the transport's Post fails with an error, the operation returns
\* to its caller with exactly that error and an empty response.
C2_TransportErrorReturned ==
    \A p \in Callers :
        (Finished(p) /\ reply[p].err # NilErr)
        => /\ pc[p] = "returned"
           /\ result[p].err = reply[p].err
           /\ result[p].resp = ZeroDNSResponse

\* C3: when the transport returns HTTP 200 with a well-formed JSON body whose
\* status field is present and is not SUCCESS (in any letter case, see C10),
\* the operation returns a non-nil error that carries that status string.
C3_APIStatusFailureReturnsError ==
    \A p \in Callers :
        (/\ Finished(p)
         /\ Decodable(p)
         /\ BodyStatus(p) # <<>>
         /\ ~SomeCasingOfSuccess(BodyStatus(p)))
        => /\ pc[p] = "returned"
           /\ result[p].err # NilErr
           /\ result[p].err[1].status = BodyStatus(p)

\* C4: NewClient returns no client and an error whenever APIKey or
\* SecretAPIKey is empty, and a client with a nil error when both are
\* non-empty; the client that exists holds the non-empty credentials given.
C4_NewClientValidates ==
    /\ cfg = <<>> => client = <<>> /\ ncErr = NilErr
    /\ cfg # <<>> =>
          LET a == cfg[1].Auth
          IN IF a.APIKey = "" \/ a.SecretAPIKey = ""
             THEN client = <<>> /\ ncErr # NilErr
             ELSE /\ client # <<>>
                  /\ ncErr = NilErr
                  /\ client[1].config.Auth = a
    /\ client # <<>> =>
          /\ client[1].config.Auth.APIKey # ""
          /\ client[1].config.Auth.SecretAPIKey # ""

C4_Witness ==
    /\ cfg # <<>>
    /\ cfg[1].Auth.APIKey # ""
    /\ cfg[1].Auth.SecretAPIKey = ""
    /\ client = <<>>
    /\ ncErr # NilErr

\* C5: whenever the transport delivered a response, its body has been closed
\* by the time the operation ends, whichever way it ends.
C5_BodyClosed ==
    \A p \in Callers :
        (Finished(p) /\ reply[p].res # <<>>) => closes[p] >= 1

C5_Witness ==
    \E p \in Callers :
        /\ Finished(p)
        /\ Answered(p)
        /\ reply[p].res[1].StatusCode = 500
        /\ closes[p] = 1

\* The json keys of the fields of r that are set.
SetKeys(r) ==
    {k \in {"id", "name", "type", "content", "notes"} :
        (CASE k = "id" -> r.ID
           [] k = "name" -> r.Name
           [] k = "type" -> r.Type
           [] k = "content" -> r.Content
           [] k = "notes" -> r.Notes) # ""}
    \cup (IF r.TTL # 0 THEN {"ttl"} ELSE {})
    \cup (IF r.Prio # <<>> THEN {"prio"} ELSE {})

\* C6: the request body of CreateRecord and EditRecord has, at its top
\* level, apikey, secretapikey and every set field of the record, with
\* their values, and nothing else; the request body of DeleteRecord and
\* RetrieveRecords has exactly apikey and secretapikey.
C6_PayloadKeys ==
    \A p \in Callers :
        posts[p] # <<>> =>
            LET b == posts[p][1].body
                r == call[p].record
                a == client[1].config.Auth
            IN /\ {"apikey", "secretapikey"} \subseteq DOMAIN b
               /\ b["apikey"] = a.APIKey
               /\ b["secretapikey"] = a.SecretAPIKey
               /\ IF call[p].op \in {"CreateRecord", "EditRecord"}
                  THEN /\ DOMAIN b = {"apikey", "secretapikey"} \cup SetKeys(r)
                       /\ "id" \in DOMAIN b => b["id"] = r.ID
                       /\ "name" \in DOMAIN b => b["name"] = r.Name
                       /\ "type" \in DOMAIN b => b["type"] = r.Type
                       /\ "content" \in DOMAIN b => b["content"] = r.Content
                       /\ "notes" \in DOMAIN b => b["notes"] = r.Notes
                       /\ "ttl" \in DOMAIN b => b["ttl"] = r.TTL
                       /\ "prio" \in DOMAIN b => b["prio"] = r.Prio[1]
                  ELSE DOMAIN b = {"apikey", "secretapikey"}

C6_Witness ==
    \E p \in Callers :
        /\ pc[p] = "posted"
        /\ call[p].op = "EditRecord"
        /\ call[p].record.Prio = <<0>>
        /\ DOMAIN posts[p][1].body =
              {"apikey", "secretapikey", "id", "name", "type", "content",
               "ttl", "prio", "notes"}

\* Record rec holds the values of the JSON object obj, and zero values for
\* the keys obj lacks.
SameRecord(rec, obj) ==
    /\ rec.ID = (IF "id" \in DOMAIN obj THEN obj["id"] ELSE "")
    /\ rec.Name = (IF "name" \in DOMAIN obj THEN obj["name"] ELSE "")
    /\ rec.Type = (IF "type" \in DOMAIN obj THEN obj["type"] ELSE "")
    /\ rec.Content = (IF "content" \in DOMAIN obj THEN obj["content"] ELSE "")
    /\ rec.Notes = (IF "notes" \in DOMAIN obj THEN obj["notes"] ELSE "")
    /\ rec.TTL = (IF "ttl" \in DOMAIN obj THEN obj["ttl"] ELSE 0)
    /\ IF "prio" \in DOMAIN obj
       THEN Len(rec.Prio) = 1 /\ rec.Prio[1] = obj["prio"]
       ELSE rec.Prio = <<>>

\* C7: on HTTP 200 with status SUCCESS and a records array of n entries, the
\* operation returns a nil error and a response with exactly those n
\* records in the same order, and with the status and id of the body.
C7_SuccessReturnsRecords ==
    \A p \in Callers :
        (Finished(p) /\ Decodable(p) /\ BodyStatus(p) = STATUS_SUCCESS)
        => /\ pc[p] = "returned"
           /\ result[p].err = NilErr
           /\ result[p].resp.Status = STATUS_SUCCESS
           /\ result[p].resp.Id =
                 (IF "id" \in DOMAIN BodyObject(p) THEN BodyObject(p)["id"] ELSE "")
           /\ Len(result[p].resp.Records) = Len(BodyRecords(p))
           /\ \A i \in 1..Len(BodyRecords(p)) :
                 SameRecord(result[p].resp.Records[i], BodyRecords(p)[i])

C7_Witness ==
    \E p \in Callers :
        /\ pc[p] = "returned"
        /\ Decodable(p)
        /\ BodyStatus(p) = STATUS_SUCCESS
        /\ Len(BodyRecords(p)) = 2
        /\ BodyRecords(p)[1] # BodyRecords(p)[2]
        /\ Len(result[p].resp.Records) = 2
        /\ result[p].resp.Records[1].ID = BodyRecords(p)[1]["id"]

\* The endpoint of an invocation.
Endpoint(c) ==
    CASE c.op = "CreateRecord" -> PORKBUN_API_BASE \o <<"dns", "create", c.domain>>
      [] c.op = "EditRecord" -> PORKBUN_API_BASE \o <<"dns", "edit", c.domain, c.id>>
      [] c.op = "DeleteRecord" -> PORKBUN_API_BASE \o <<"dns", "delete", c.domain, c.id>>
      [] c.op = "RetrieveRecords" -> PORKBUN_API_BASE \o <<"dns", "retrieve", c.domain>>

\* C8: an invocation has issued exactly one POST, to the endpoint of its
\* operation with content type application/json, from the moment it posts
\* to its end, whether it succeeds or fails; before that it has issued none.
C8_OnePostToOwnEndpoint ==
    \A p \in Callers :
        IF pc[p] = "idle"
        THEN posts[p] = <<>>
        ELSE /\ Len(posts[p]) = 1
             /\ posts[p][1].url = Endpoint(call[p])
             /\ posts[p][1].contentType = "application/json"
             /\ posts[p][1].via = client[1].config.Client[1]

C8_Witness ==
    \E p \in Callers :
        /\ Finished(p)
        /\ call[p].op = "DeleteRecord"
        /\ Answered(p)
        /\ reply[p].res[1].StatusCode = 500
        /\ Len(posts[p]) = 1

\* C9: once the client is constructed, no step of any caller, whatever the
\* interleaving and whether the call fails or not, changes the credentials
\* or the transport handle the client holds.
C9_ClientNeverMutated == [][client # <<>> => client' = client]_vars

C9_Witness ==
    \E p, q \in Callers :
        /\ p # q
        /\ pc[p] = "posted"
        /\ pc[q] = "panicked"
        /\ client # <<>>

\* C10: on HTTP 200 with a well-formed body, a status that is SUCCESS in any
\* letter case makes the operation return the decoded response with a nil
\* error; any other status (the empty or missing one included) makes it
\* withhold the decoded response and return an empty one.
C10_StatusComparedIgnoringCase ==
    \A p \in Callers :
        (pc[p] = "returned" /\ Decodable(p))
        => IF SomeCasingOfSuccess(BodyStatus(p))
           THEN /\ result[p].err = NilErr
                /\ result[p].resp.Status = BodyStatus(p)
                /\ Len(result[p].resp.Records) = Len(BodyRecords(p))
           ELSE result[p].resp = ZeroDNSResponse

C10_Witness ==
    \E p \in Callers :
        /\ pc[p] = "returned"
        /\ Decodable(p)
        /\ BodyStatus(p) = <<"s", "u", "c", "c", "e", "s", "s">>
        /\ Len(BodyRecords(p)) = 1
        /\ result[p].resp.Status = BodyStatus(p)
        /\ Len(result[p].resp.Records) = 1

====
